---- MODULE Spec2Model ----
(***************************************************************************)
(* Model of tibetan_sanskrit_transliteration: the rewrite engine           *)
(* (TibetanSanskritTransliterator.transliterate), the rule loader and the  *)
(* process-wide cached engine (get_transliterator).                        *)
(*                                                                         *)
(* A string is a sequence of characters; a character is a short TLA+       *)
(* string.  Tibetan code points are named in capitals:                     *)
(*   TSHEK U+0F0B, SHAD U+0F0D, RINSHAD U+0F11, TERSHAD U+0F14,            *)
(*   VISARGA U+0F7F, vowel signs vAA U+0F71, vI U+0F72, vU U+0F74,         *)
(*   vE U+0F7A, vO U+0F7C, vM U+0F7E, vRI U+0F80, letters BA DZA sRA SA RA *)
(*   sBA NA A.  Latin characters are themselves ("a", "v", " ", "^");      *)
(*   the diacritic letters are written a- i- u- r. r.- l. l.- (long and    *)
(*   vocalic vowels), m. (anusvara, dot below), m' (anusvara, dot above),  *)
(*   h. (visarga), NL is the line feed.  "(" in a rule pattern stands for  *)
(*   an unbalanced parenthesis and "{HUGE}" for a repetition count too     *)
(*   large for the regex compiler.                                         *)
(***************************************************************************)
EXTENDS Naturals, Sequences, FiniteSets, TLC

VARIABLES
    cache,      \* _default_transliterator: NoEngine or the cached engine
    made,       \* number of engines constructed so far (instance ids)
    tpc,        \* position of the transliterate call
    req,        \* its arguments [text, mode, capitalize, anusvara_style]
    replaced,   \* its working string
    idx,        \* index of the next rule of the for loop
    result,     \* its return value
    last,       \* the previous call's request and output, when it is repeated
    gpc,        \* per thread: position inside get_transliterator
    garg,       \* per thread: the csv_path argument
    gret,       \* per thread: the id of the instance returned
    ppc,        \* position of a post-processing stage run on its own
    pin,        \* the input of that stage
    pout        \* its output

vars == <<cache, made, tpc, req, replaced, idx, result, last, gpc, garg, gret, ppc, pin, pout>>

----------------------------------------------------------------------------
(* Characters *)

Markers == {"TSHEK", "SHAD", "RINSHAD", "TERSHAD"}

vowel_markers == {"vAA", "vI", "vU", "vE", "vO", "vM", "vRI"}

LongVowels == {"a-", "i-", "u-", "r.", "r.-", "l.", "l.-"}

Anusvaras == {"m.", "m'"}

Whitespace == {" ", "NL"}

Placeholder == <<"^", "^", "^">>

NAAM == <<"NA", "vAA", "vM">>

\* str.upper() on one character
Upper(c) ==
    CASE c = "a" -> "A" [] c = "b" -> "B" [] c = "v" -> "V" [] c = "s" -> "S"
      [] c = "o" -> "O" [] c = "x" -> "X" [] c = "n" -> "N" [] c = "i" -> "I"
      [] c = "j" -> "J" [] c = "r" -> "R" [] c = "m" -> "M" [] c = "h" -> "H"
      [] c = "y" -> "Y" [] c = "a-" -> "A-" [] c = "m." -> "M." [] c = "m'" -> "M'"
      [] c = "h." -> "H."
      [] OTHER -> c

----------------------------------------------------------------------------
(* String primitives *)

Range(s) == {s[i] : i \in 1..Len(s)}

From(s, i) == SubSeq(s, i, Len(s))

MatchesAt(s, i, p) ==
    /\ i + Len(p) - 1 <= Len(s)
    /\ SubSeq(s, i, i + Len(p) - 1) = p

EndsWith(s, c) == Len(s) > 0 /\ s[Len(s)] = c

RECURSIVE ReplaceLiteral(_, _, _)
\* str.replace(p, r) and re.sub of a literal non-empty pattern: leftmost,
\* non-overlapping occurrences, the scan resuming after each match.
ReplaceLiteral(s, p, r) ==
    IF s = <<>> THEN <<>>
    ELSE IF MatchesAt(s, 1, p) THEN r \o ReplaceLiteral(From(s, Len(p) + 1), p, r)
    ELSE <<s[1]>> \o ReplaceLiteral(Tail(s), p, r)

RECURSIVE SubBeforeClass(_, _, _, _, _)
\* re.sub(p + "[cls]", r) when keep is FALSE, re.sub(p + "([cls])", r + "\1")
\* when keep is TRUE
SubBeforeClass(s, p, cls, r, keep) ==
    IF s = <<>> THEN <<>>
    ELSE IF MatchesAt(s, 1, p) /\ Len(s) > Len(p) /\ s[Len(p) + 1] \in cls
         THEN r \o (IF keep THEN <<s[Len(p) + 1]>> ELSE <<>>)
                \o SubBeforeClass(From(s, Len(p) + 2), p, cls, r, keep)
    ELSE <<s[1]>> \o SubBeforeClass(Tail(s), p, cls, r, keep)

RECURSIVE NonMarkerRun(_, _)
\* length of the longest run of non-marker characters of s starting at i
NonMarkerRun(s, i) ==
    IF i > Len(s) \/ s[i] \in Markers THEN 0 ELSE 1 + NonMarkerRun(s, i + 1)

RECURSIVE SubGenitive(_, _, _)
\* re.sub("(" + p + "[^markers]*)" + TSHEK + NAAM, "\1" + TSHEK + "^^^" + suffix)
SubGenitive(s, p, suffix) ==
    IF s = <<>> THEN <<>>
    ELSE LET k == Len(p) + NonMarkerRun(s, Len(p) + 1)
         IN IF MatchesAt(s, 1, p) /\ MatchesAt(s, k + 1, <<"TSHEK">> \o NAAM)
            THEN SubSeq(s, 1, k) \o <<"TSHEK">> \o Placeholder \o suffix
                   \o SubGenitive(From(s, k + 5), p, suffix)
            ELSE <<s[1]>> \o SubGenitive(Tail(s), p, suffix)

RECURSIVE StripPlaceholder(_)
\* re.sub(r' ?\^\^\^', '', s)
StripPlaceholder(s) ==
    IF s = <<>> THEN <<>>
    ELSE IF s[1] = " " /\ MatchesAt(s, 2, Placeholder) THEN StripPlaceholder(From(s, 5))
    ELSE IF MatchesAt(s, 1, Placeholder) THEN StripPlaceholder(From(s, 4))
    ELSE <<s[1]>> \o StripPlaceholder(Tail(s))

RECURSIVE DropABefore(_, _)
\* re.sub('a([cls])', r'\1', s)
DropABefore(s, cls) ==
    IF s = <<>> THEN <<>>
    ELSE IF s[1] = "a" /\ Len(s) > 1 /\ s[2] \in cls
         THEN <<s[2]>> \o DropABefore(From(s, 3), cls)
    ELSE <<s[1]>> \o DropABefore(Tail(s), cls)

RECURSIVE SpaceRun(_, _)
\* length of the run of spaces of s starting at i
SpaceRun(s, i) == IF i > Len(s) \/ s[i] # " " THEN 0 ELSE 1 + SpaceRun(s, i + 1)

FourSpaces == <<" ", " ", " ", " ">>

RECURSIVE SubSpacesUpper(_)
\* re.sub(r' {2,}(.)', lambda m: '    ' + m.group(1).upper(), s); "." matches
\* every character but the line feed, so a run before a line feed or the end
\* matches only by giving its last space to "." (three spaces or more).
SubSpacesUpper(s) ==
    IF s = <<>> THEN <<>>
    ELSE LET k == SpaceRun(s, 1)
         IN IF k >= 2 /\ Len(s) > k /\ s[k + 1] # "NL"
            THEN FourSpaces \o <<Upper(s[k + 1])>> \o SubSpacesUpper(From(s, k + 2))
            ELSE IF k >= 3
            THEN FourSpaces \o <<" ">> \o SubSpacesUpper(From(s, k + 1))
            ELSE <<s[1]>> \o SubSpacesUpper(Tail(s))

RECURSIVE SubSpaces(_)
\* re.sub(r' {2,}', '    ', s)
SubSpaces(s) ==
    IF s = <<>> THEN <<>>
    ELSE LET k == SpaceRun(s, 1)
         IN IF k >= 2 THEN FourSpaces \o SubSpaces(From(s, k + 1))
            ELSE <<s[1]>> \o SubSpaces(Tail(s))

ReplaceChar(s, c, d) == [i \in 1..Len(s) |-> IF s[i] = c THEN d ELSE s[i]]

RECURSIVE LStrip(_)
LStrip(s) == IF s # <<>> /\ s[1] \in Whitespace THEN LStrip(Tail(s)) ELSE s

RECURSIVE RStrip(_)
RStrip(s) ==
    IF s # <<>> /\ s[Len(s)] \in Whitespace THEN RStrip(SubSeq(s, 1, Len(s) - 1)) ELSE s

\* str.strip()
Strip(s) == RStrip(LStrip(s))

----------------------------------------------------------------------------
(* The normalizer (normalizer.py): canonical form of Tibetan text; markers *)
(* at the end are stripped unless keep_trailing_tshek is set.              *)

RECURSIVE StripTrailingMarkers(_)
StripTrailingMarkers(s) ==
    IF s # <<>> /\ s[Len(s)] \in Markers
    THEN StripTrailingMarkers(SubSeq(s, 1, Len(s) - 1)) ELSE s

normalize_tibetan(text, keep_trailing_tshek) ==
    IF keep_trailing_tshek THEN text ELSE StripTrailingMarkers(text)

Plain(c) ==
    CASE c = "a-" -> "a" [] c = "i-" -> "i" [] c = "u-" -> "u"
      [] c = "r." -> "r" [] c = "r.-" -> "r" [] c = "l." -> "l" [] c = "l.-" -> "l"
      [] c = "m." -> "m" [] c = "m'" -> "m" [] c = "h." -> "h"
      [] OTHER -> c

normalize_iast(text) == [i \in 1..Len(text) |-> Plain(text[i])]

----------------------------------------------------------------------------
(* Rule sources and the loader (loader.py) *)

Row(t, tr, ph) == [tibetan |-> t, transliteration |-> tr, phonetics |-> ph]

VAJRA == <<"BA", "DZA", "sRA">>

SARVA == <<"SA", "RA", "sBA">>

OM == <<"A", "vO", "vM">>

vajra == <<"v", "a", "j", "r", "a">>

sarva == <<"s", "a", "r", "v", "a">>

\* The rows of each readable rule source, keyed by csv_path; "None" is the
\* bundled data/replacements.csv (an excerpt).  A row with no phonetics
\* column value reads as the empty string.
SourceRows(path) ==
    CASE path = "None" ->
           << Row(OM, <<"o", "m.">>, <<"o", "m">>),
              Row(VAJRA, vajra, <<>>),
              Row(<<"BA">>, <<"b", "a">>, <<>>),
              Row(<<"vI">>, <<"i">>, <<>>) >>
      [] path = "reordered.csv" ->
           << Row(<<"BA">>, <<"b", "a">>, <<>>),
              Row(VAJRA, vajra, <<>>),
              Row(<<>>, <<"x">>, <<>>),
              Row(<<"vI">>, <<"i">>, <<>>) >>
      [] path = "sarva.csv" ->
           << Row(SARVA \o <<"TSHEK">>, sarva, <<>>) >>
      [] path = "mama.csv" ->
           << Row(<<"MA", "MA">>, <<"m", "a", "m", "a">>, <<>>) >>
      [] path = "faulty.csv" ->
           << Row(<<"BA", "(">>, <<"x">>, <<>>),
              Row(<<"BA">>, <<"b", "a">>, <<>>) >>
      [] path = "overflow.csv" ->
           << Row(<<"BA", "{HUGE}">>, <<"x">>, <<>>),
              Row(<<"BA">>, <<"b", "a">>, <<>>) >>

ReadablePaths ==
    {"None", "reordered.csv", "sarva.csv", "mama.csv", "faulty.csv", "overflow.csv"}

Paths == ReadablePaths \cup {"missing.csv"}

RECURSIVE Reverse(_)
Reverse(s) == IF s = <<>> THEN <<>> ELSE Append(Reverse(Tail(s)), Head(s))

\* a loader that loses the file order
load_replacements_reversed(csv_path) ==
    IF csv_path \in ReadablePaths
    THEN [exc |-> "none", rows |-> Reverse(SourceRows(csv_path))]
    ELSE [exc |-> "FileNotFoundError", rows |-> <<>>]

\* load_replacements: the rows in file order; an unreadable source raises
load_replacements(csv_path) ==
    IF csv_path \in ReadablePaths
    THEN [exc |-> "none", rows |-> SourceRows(csv_path)]
    ELSE [exc |-> "FileNotFoundError", rows |-> <<>>]

\* TibetanSanskritTransliterator.__init__ after a successful load
Preprocess(raw_replacements) ==
    [i \in 1..Len(raw_replacements) |->
        [tibetan |-> normalize_tibetan(raw_replacements[i].tibetan, FALSE),
         transliteration |-> raw_replacements[i].transliteration,
         phonetics |-> raw_replacements[i].phonetics]]

----------------------------------------------------------------------------
(* transliterate: the loop body for one rule *)

\* what compiling a regular expression built around the pattern raises
Compile(pattern) ==
    IF "{HUGE}" \in Range(pattern) THEN "OverflowError"
    ELSE IF "(" \in Range(pattern) THEN "re.error"
    ELSE "none"

\* except re.error
Caught(exc) == exc = "re.error"

Outcome(exc, text) == [exc |-> exc, text |-> text]

Replacement(word, mode) ==
    IF mode = "phonetics"
    THEN (IF word.phonetics # <<>> THEN word.phonetics
          ELSE normalize_iast(word.transliteration))
    ELSE word.transliteration

\* the suffix written after the placeholder
Suffix(mode) == IF mode = "phonetics" THEN <<"n", "a", "m">> ELSE <<"n", "a-", "m.">>

\* a suffix rule that rewrites the suffix without protecting it
GenitiveStepNoPlaceholder(pattern, mode, s) ==
    LET exc == Compile(pattern)
    IN IF exc = "none"
       THEN Outcome("none", ReplaceLiteral(SubGenitive(s, pattern, Suffix(mode)),
                                           Placeholder, <<>>))
       ELSE IF Caught(exc) THEN Outcome("none", s)
       ELSE Outcome(exc, s)

\* the try block of the -naam suffix
GenitiveStep(pattern, mode, s) ==
    LET exc == Compile(pattern)
    IN IF exc = "none"
       THEN Outcome("none", SubGenitive(s, pattern, Suffix(mode)))
       ELSE IF Caught(exc) THEN Outcome("none", s)
       ELSE Outcome(exc, s)

\* the block without its vowel-marker substitution
InherentSubsNoVowel(pattern, replacement, mode, s) ==
    LET base == SubSeq(replacement, 1, Len(replacement) - 1)
        s1 == SubBeforeClass(s, pattern, Markers, replacement \o <<" ">>, FALSE)
    IN SubBeforeClass(s1, pattern, {"VISARGA"},
           base \o (IF mode = "phonetics" THEN <<"a", "h">> ELSE <<"a", "h.">>), FALSE)

\* the three substitutions of the inherent-vowel try block, in order
InherentSubs(pattern, replacement, mode, s) ==
    LET base == SubSeq(replacement, 1, Len(replacement) - 1)
        s1 == SubBeforeClass(s, pattern, Markers, replacement \o <<" ">>, FALSE)
        s2 == SubBeforeClass(s1, pattern, {"VISARGA"},
                  base \o (IF mode = "phonetics" THEN <<"a", "h">> ELSE <<"a", "h.">>), FALSE)
    IN SubBeforeClass(s2, pattern, vowel_markers, base, TRUE)

\* the inherent-vowel block: only for a replacement that ends in "a"
InherentStep(pattern, replacement, mode, s) ==
    IF ~EndsWith(replacement, "a") THEN Outcome("none", s)
    ELSE LET exc == Compile(pattern)
         IN IF exc = "none" THEN Outcome("none", InherentSubs(pattern, replacement, mode, s))
            ELSE IF Caught(exc) THEN Outcome("none", s)
            ELSE Outcome(exc, s)

\* the general replacement, with its literal fallback
GeneralStep(pattern, replacement, s) ==
    LET exc == Compile(pattern)
    IN IF exc = "none" \/ Caught(exc)
       THEN Outcome("none", ReplaceLiteral(s, pattern, replacement))
       ELSE Outcome(exc, s)

\* one iteration of "for word in self.replacements"
RuleBody(word, mode, s) ==
    LET replacement == Replacement(word, mode)
        pattern == word.tibetan
    IN IF pattern = <<>> THEN Outcome("none", s)
       ELSE LET g == GenitiveStep(pattern, mode, s)
            IN IF g.exc # "none" THEN g
               ELSE LET h == InherentStep(pattern, replacement, mode, g.text)
                    IN IF h.exc # "none" THEN h
                       ELSE GeneralStep(pattern, replacement, h.text)

----------------------------------------------------------------------------
(* transliterate: after the loop *)

\* a clean-up that forgets the tshek
CleanMarkersKeepTshek(s) == StripPlaceholder(s)

\* tshek to space, placeholder stripped
CleanMarkers(s) == StripPlaceholder(ReplaceChar(s, "TSHEK", " "))

RECURSIVE DropAfterA(_, _)
\* re.sub('a([cls])', 'a', s): the wrong half of the match is kept
DropAfterA(s, cls) ==
    IF s = <<>> THEN <<>>
    ELSE IF s[1] = "a" /\ Len(s) > 1 /\ s[2] \in cls
         THEN <<"a">> \o DropAfterA(From(s, 3), cls)
    ELSE <<s[1]>> \o DropAfterA(Tail(s), cls)

VowelCleanupDropsVowel(s) == DropAfterA(DropAfterA(s, LongVowels), Anusvaras)

\* "Fix double vowel issues from overlapping replacements"
VowelCleanup(s) == DropABefore(DropABefore(s, LongVowels), Anusvaras)

\* "Handle capitalization"
Capitalization(s, capitalize) ==
    IF capitalize
    THEN SubSpacesUpper(IF s # <<>> THEN <<Upper(s[1])>> \o Tail(s) ELSE s)
    ELSE SubSpaces(s)

\* "Apply anusvara style"
AnusvaraStyle(s, anusvara_style) ==
    IF anusvara_style = "m'" THEN ReplaceChar(s, "m.", "m'") ELSE s

\* everything from the end of the loop to the return
Finish(s, capitalize, anusvara_style) ==
    Strip(AnusvaraStyle(Capitalization(VowelCleanup(CleanMarkers(s)), capitalize),
                        anusvara_style))

----------------------------------------------------------------------------
(* Bounds and inputs *)

MaxTokens == 3

MaxCallTokens == 2

MaxCleanupLen == 4

MaxCapLen == 5

NThreads == 2

Threads == 1..NThreads

main == CHOOSE t \in Threads : \A u \in Threads : t <= u

RECURSIVE Flatten(_)
Flatten(ts) == IF ts = <<>> THEN <<>> ELSE Head(ts) \o Flatten(Tail(ts))

SeqsUpTo(S, n) == UNION {[1..k -> S] : k \in 0..n}

\* the pieces the input texts given to an engine are made of
Tokens(path) ==
    CASE path = "None" -> {OM, VAJRA, <<"TSHEK">>, <<"VISARGA">>, <<"vI">>}
      [] path = "reordered.csv" -> {VAJRA, <<"TSHEK">>, <<"SHAD">>}
      [] path = "sarva.csv" -> {SARVA, <<"TSHEK">>, NAAM, <<"a">>, <<"a-">>}
      [] path = "mama.csv" -> {<<"MA", "MA">>, <<"MA">>, <<"TSHEK">>}
      [] path = "faulty.csv" -> {<<"BA">>, <<"(">>, <<"TSHEK">>}
      [] OTHER -> {<<"BA">>, <<"TSHEK">>}

Texts(path, n) == {Flatten(ts) : ts \in SeqsUpTo(Tokens(path), n)}

Modes == {"iast", "phonetics"}

Styles == {"m.", "m'"}

Request(text, mode, capitalize, anusvara_style) ==
    [text |-> text, mode |-> mode, capitalize |-> capitalize,
     anusvara_style |-> anusvara_style]

NoRequest == Request(<<>>, "iast", FALSE, "m.")

NoEngine == [id |-> 0, path |-> "None", replacements |-> <<>>]

NoLast == [set |-> FALSE, out |-> <<>>]

----------------------------------------------------------------------------
(* The engine and the cached instance *)

\* TibetanSanskritTransliterator(csv_path): the new instance, or the
\* loader's exception
Construct(csv_path, id) ==
    LET l == load_replacements(csv_path)
    IN IF l.exc # "none" THEN [exc |-> l.exc, engine |-> NoEngine]
       ELSE [exc |-> "none",
             engine |-> [id |-> id, path |-> csv_path,
                         replacements |-> Preprocess(l.rows)]]

\* "if _default_transliterator is None": the path given plays no part
CacheMissKeyed(c, csv_path) == c.id = 0 \/ c.path # csv_path

CacheMiss(c, csv_path) == c.id = 0

\* what the loop body leaves in self.replacements: it only reads the rules
ReplacementsConsumed(replacements, i) ==
    [replacements EXCEPT ![i] = [@ EXCEPT !.tibetan = <<>>]]

ReplacementsAfterRule(replacements, i) == replacements

CallVars == <<tpc, req, replaced, idx, result, last>>

GetVars == <<gpc, garg, gret>>

StageVars == <<ppc, pin, pout>>

\* get_transliterator(csv_path), run to its end by the only caller
GetTransliterator(csv_path) ==
    /\ tpc = "idle" /\ gpc[main] = "idle"
    /\ IF CacheMiss(cache, csv_path)
       THEN LET c == Construct(csv_path, made + 1)
            IN IF c.exc # "none"
               THEN /\ gpc' = [gpc EXCEPT ![main] = "raised"]
                    /\ gret' = [gret EXCEPT ![main] = 0]
                    /\ UNCHANGED <<cache, made>>
               ELSE /\ cache' = c.engine
                    /\ made' = made + 1
                    /\ gpc' = [gpc EXCEPT ![main] = "returned"]
                    /\ gret' = [gret EXCEPT ![main] = c.engine.id]
       ELSE /\ gpc' = [gpc EXCEPT ![main] = "returned"]
            /\ gret' = [gret EXCEPT ![main] = cache.id]
            /\ UNCHANGED <<cache, made>>
    /\ garg' = [garg EXCEPT ![main] = csv_path]
    /\ UNCHANGED <<CallVars, StageVars>>

\* the caller goes on after get_transliterator returned or raised
Resume ==
    /\ gpc[main] \in {"returned", "raised"}
    /\ gpc' = [gpc EXCEPT ![main] = "idle"]
    /\ garg' = [garg EXCEPT ![main] = "None"]
    /\ gret' = [gret EXCEPT ![main] = 0]
    /\ UNCHANGED <<cache, made, CallVars, StageVars>>

\* transliterate is entered on the cached engine: the input is normalized
Call(text, mode, capitalize, anusvara_style) ==
    /\ tpc = "idle" /\ gpc[main] = "idle" /\ cache.id # 0
    /\ req' = Request(text, mode, capitalize, anusvara_style)
    /\ replaced' = normalize_tibetan(text, TRUE)
    /\ idx' = 1
    /\ tpc' = "loop"
    /\ last' = NoLast
    /\ UNCHANGED <<cache, made, result, GetVars, StageVars>>

\* one iteration of the for loop; an exception it does not catch ends the call
RuleStep ==
    /\ tpc = "loop" /\ idx <= Len(cache.replacements)
    /\ LET o == RuleBody(cache.replacements[idx], req.mode, replaced)
       IN /\ replaced' = o.text
          /\ tpc' = IF o.exc = "none" THEN "loop" ELSE "raised"
    /\ idx' = idx + 1
    /\ cache' = [cache EXCEPT !.replacements = ReplacementsAfterRule(@, idx)]
    /\ UNCHANGED <<made, req, result, last, GetVars, StageVars>>

\* the loop is over: clean-up, capitalization, anusvara style, strip
Return ==
    /\ tpc = "loop" /\ idx > Len(cache.replacements)
    /\ result' = Finish(replaced, req.capitalize, req.anusvara_style)
    /\ tpc' = "done"
    /\ UNCHANGED <<cache, made, req, replaced, idx, last, GetVars, StageVars>>

\* the caller issues the same request again on the shared engine
Again ==
    /\ tpc = "done" /\ ~last.set
    /\ last' = [set |-> TRUE, out |-> result]
    /\ replaced' = normalize_tibetan(req.text, TRUE)
    /\ idx' = 1
    /\ tpc' = "loop"
    /\ UNCHANGED <<cache, made, req, result, GetVars, StageVars>>

\* the caller is done with the request (or with its exception)
Forget ==
    /\ tpc \in {"done", "raised"}
    /\ tpc' = "idle"
    /\ req' = NoRequest /\ replaced' = <<>> /\ idx' = 0 /\ result' = <<>>
    /\ last' = NoLast
    /\ UNCHANGED <<cache, made, GetVars, StageVars>>

GetIdle ==
    /\ gpc = [t \in Threads |-> "idle"]
    /\ garg = [t \in Threads |-> "None"]
    /\ gret = [t \in Threads |-> 0]

CallIdle ==
    /\ tpc = "idle" /\ req = NoRequest /\ replaced = <<>> /\ idx = 0
    /\ result = <<>> /\ last = NoLast

StageOff == ppc = "off" /\ pin = <<>> /\ pout = <<>>

Init == cache = NoEngine /\ made = 0 /\ CallIdle /\ GetIdle /\ StageOff

Next ==
    \/ \E p \in Paths : GetTransliterator(p)
    \/ Resume
    \/ \E text \in Texts(cache.path, MaxCallTokens), mode \in Modes,
          capitalize \in BOOLEAN, anusvara_style \in Styles :
            Call(text, mode, capitalize, anusvara_style)
    \/ RuleStep
    \/ Return
    \/ Again
    \/ Forget

\* the lifetime of the cached engine with a single caller
Spec == Init /\ [][Next]_vars

----------------------------------------------------------------------------
(* One transliterate call on an engine built from each rule source *)

InitCall ==
    /\ \E p \in ReadablePaths :
          /\ cache = Construct(p, 1).engine
          /\ \E text \in Texts(p, MaxTokens), mode \in Modes,
                capitalize \in BOOLEAN, anusvara_style \in Styles :
                /\ req = Request(text, mode, capitalize, anusvara_style)
                /\ replaced = normalize_tibetan(text, TRUE)
    /\ made = 1
    /\ tpc = "loop" /\ idx = 1 /\ result = <<>> /\ last = NoLast
    /\ GetIdle /\ StageOff

NextCall == RuleStep \/ Return

SpecCall == InitCall /\ [][NextCall]_vars

----------------------------------------------------------------------------
(* get_transliterator called from several threads: the check of line 180,  *)
(* the construction and assignment of line 181 and the return of line 182  *)
(* are separate steps.                                                     *)

GCheck(t, csv_path) ==
    /\ gpc[t] = "idle"
    /\ garg' = [garg EXCEPT ![t] = csv_path]
    /\ gpc' = [gpc EXCEPT ![t] = IF CacheMiss(cache, csv_path) THEN "construct" ELSE "return"]
    /\ UNCHANGED <<cache, made, gret, CallVars, StageVars>>

GConstruct(t) ==
    /\ gpc[t] = "construct"
    /\ LET c == Construct(garg[t], made + 1)
       IN IF c.exc # "none"
          THEN /\ gpc' = [gpc EXCEPT ![t] = "raised"]
               /\ UNCHANGED <<cache, made>>
          ELSE /\ cache' = c.engine
               /\ made' = made + 1
               /\ gpc' = [gpc EXCEPT ![t] = "return"]
    /\ UNCHANGED <<garg, gret, CallVars, StageVars>>

GReturn(t) ==
    /\ gpc[t] = "return"
    /\ gret' = [gret EXCEPT ![t] = cache.id]
    /\ gpc' = [gpc EXCEPT ![t] = "returned"]
    /\ UNCHANGED <<cache, made, garg, CallVars, StageVars>>

NextConc ==
    \E t \in Threads :
        \/ \E p \in Paths : GCheck(t, p)
        \/ GConstruct(t)
        \/ GReturn(t)

SpecConc == Init /\ [][NextConc]_vars

----------------------------------------------------------------------------
(* The vowel-collision clean-up applied twice to a string *)

CleanupAlphabet == {"a", "a-", "m.", "x"}

InitCleanup ==
    /\ cache = NoEngine /\ made = 0 /\ CallIdle /\ GetIdle
    /\ ppc = "in"
    /\ pin \in SeqsUpTo(CleanupAlphabet, MaxCleanupLen)
    /\ pout = <<>>

CleanupOnce ==
    /\ ppc = "in"
    /\ pout' = <<VowelCleanup(pin)>>
    /\ ppc' = "once"
    /\ UNCHANGED <<cache, made, pin, CallVars, GetVars>>

CleanupTwice ==
    /\ ppc = "once"
    /\ pout' = Append(pout, VowelCleanup(pout[1]))
    /\ ppc' = "twice"
    /\ UNCHANGED <<cache, made, pin, CallVars, GetVars>>

NextCleanup == CleanupOnce \/ CleanupTwice

SpecCleanup == InitCleanup /\ [][NextCleanup]_vars

----------------------------------------------------------------------------
(* The end of transliterate (capitalization, anusvara style, strip) on the *)
(* same cleaned-up string with and without the capitalize flag             *)

CapAlphabet == {"x", " ", "NL"}

\* lines 127-138
AfterCleanup(s, capitalize, anusvara_style) ==
    Strip(AnusvaraStyle(Capitalization(s, capitalize), anusvara_style))

InitCap ==
    /\ cache = NoEngine /\ made = 0 /\ CallIdle /\ GetIdle
    /\ ppc = "in"
    /\ \E s \in SeqsUpTo(CapAlphabet, MaxCapLen), st \in Styles :
          pin = [s |-> s, anusvara_style |-> st]
    /\ pout = <<>>

BothFlags ==
    /\ ppc = "in"
    /\ pout' = [plain |-> AfterCleanup(pin.s, FALSE, pin.anusvara_style),
                capital |-> AfterCleanup(pin.s, TRUE, pin.anusvara_style)]
    /\ ppc' = "out"
    /\ UNCHANGED <<cache, made, pin, CallVars, GetVars>>

NextCap == BothFlags

SpecCap == InitCap /\ [][NextCap]_vars

----------------------------------------------------------------------------
(* Properties *)

Rules == cache.replacements

Normalized == normalize_tibetan(req.text, TRUE)

Defaults == ~req.capitalize /\ req.anusvara_style = "m."

\* the request's text is the rule's pattern, a tshek and the suffix letters
GenitiveRequest(w) ==
    w.tibetan # <<>> /\ req.text = w.tibetan \o <<"TSHEK">> \o NAAM

\* C1 as stated: with a rule P -> R, transliterate(P + tshek + NAAM) returns
\* R, one space and the suffix of the mode ("sarva nam").
C1_SpaceBeforeSuffix ==
    \A i \in 1..Len(Rules) :
        (tpc = "done" /\ GenitiveRequest(Rules[i]) /\ Defaults)
            => result = Replacement(Rules[i], req.mode) \o <<" ">> \o Suffix(req.mode)

\* C1 amended: with a rule P -> R, transliterate(P + tshek + NAAM) returns R
\* immediately followed by the suffix of the mode, the space stripped with
\* the placeholder ("sarvanam", "sarvanaam" with diacritics in iast).
C1_SuffixJoined ==
    \A i \in 1..Len(Rules) :
        (tpc = "done" /\ GenitiveRequest(Rules[i]) /\ Defaults)
            => result = Replacement(Rules[i], req.mode) \o Suffix(req.mode)

C1_Witness ==
    /\ tpc = "done" /\ cache.path = "sarva.csv"
    /\ req = Request(SARVA \o <<"TSHEK">> \o NAAM, "phonetics", FALSE, "m.")
    /\ result = sarva \o <<"n", "a", "m">>

RECURSIVE AppliedInOrder(_, _, _)
AppliedInOrder(rules, mode, s) ==
    IF rules = <<>> THEN s
    ELSE AppliedInOrder(Tail(rules), mode, RuleBody(Head(rules), mode, s).text)

\* C2: the engine's rule list holds the rows of its source in file order (the
\* pattern normalized), and while the loop runs the working text is the
\* normalized input rewritten by the rules before the current one, each in
\* turn, and by no other rule.
C2_RuleOrder ==
    LET rows == SourceRows(cache.path)
        expected == [i \in 1..Len(rows) |->
                        [rows[i] EXCEPT !.tibetan = normalize_tibetan(@, FALSE)]]
    IN /\ Rules = expected
       /\ tpc = "loop" =>
            replaced = AppliedInOrder(SubSeq(expected, 1, idx - 1), req.mode, Normalized)
       /\ tpc = "done" =>
            result = Finish(AppliedInOrder(expected, req.mode, Normalized),
                            req.capitalize, req.anusvara_style)

\* the earlier rule BA claimed the first letter of VAJRA, whose own rule
\* found nothing left to match
C2_Witness ==
    /\ tpc = "done" /\ cache.path = "reordered.csv"
    /\ req.text = VAJRA \o <<"TSHEK">>
    /\ result = <<"b", "a", "DZA", "sRA">>

Occurs(p, s) == \E i \in 1..Len(s) : MatchesAt(s, i, p)

NoRuleMatches ==
    \A i \in 1..Len(Rules) : Rules[i].tibetan = <<>> \/ ~Occurs(Rules[i].tibetan, Normalized)

TshekAsSpace == [i \in 1..Len(Normalized) |->
                    IF Normalized[i] = "TSHEK" THEN " " ELSE Normalized[i]]

RECURSIVE Trimmed(_)
Trimmed(s) ==
    IF s # <<>> /\ s[1] \in Whitespace THEN Trimmed(Tail(s))
    ELSE IF s # <<>> /\ s[Len(s)] \in Whitespace THEN Trimmed(SubSeq(s, 1, Len(s) - 1))
    ELSE s

\* C3 as stated: when no rule pattern matches, the output is the normalized
\* input with every tshek a space, trimmed, and nothing else changed.
C3_PassThrough ==
    (tpc = "done" /\ NoRuleMatches /\ Defaults) => result = Trimmed(TshekAsSpace)

\* what the steps after the loop rewrite whatever the rules did
Untouchable ==
    LET t == TshekAsSpace
    IN /\ ~Occurs(Placeholder, t)
       /\ ~\E i \in 1..(Len(t) - 1) :
              \/ t[i] = "a" /\ t[i + 1] \in LongVowels \cup Anusvaras
              \/ t[i] = " " /\ t[i + 1] = " "

\* C3 amended: when no rule pattern matches, the call returns, capitalize is
\* off and the anusvara style is the default, and the text with its tshek as
\* spaces holds no placeholder, no "a" right before a long vowel or an
\* anusvara and no two spaces in a row, the output is that text trimmed.
C3_PassThroughClean ==
    (tpc = "done" /\ NoRuleMatches /\ Defaults /\ Untouchable)
        => result = Trimmed(TshekAsSpace)

C3_Witness ==
    /\ tpc = "done" /\ cache.path = "sarva.csv" /\ NoRuleMatches /\ Defaults /\ Untouchable
    /\ req.text = <<"a", "TSHEK", "a-">>
    /\ result = <<"a", " ", "a-">>

RECURSIVE GroupsClaimed(_, _)
\* every run of two or more spaces made four spaces, the character after it
\* uppercased when capitalize is set
GroupsClaimed(s, capitalize) ==
    IF s = <<>> THEN <<>>
    ELSE LET k == SpaceRun(s, 1)
         IN IF k < 2 THEN <<s[1]>> \o GroupsClaimed(Tail(s), capitalize)
            ELSE IF Len(s) = k THEN FourSpaces
            ELSE FourSpaces
                   \o <<IF capitalize THEN Upper(s[k + 1]) ELSE s[k + 1]>>
                   \o GroupsClaimed(From(s, k + 2), capitalize)

FirstUpper(s) == IF s = <<>> THEN s ELSE <<Upper(s[1])>> \o Tail(s)

\* C4: the output with capitalize is the output without it but for the
\* first character of the result and the first character after every run of
\* two or more spaces, uppercased; both have every such run as four spaces.
C4_OnlyCase ==
    ppc = "out" =>
        /\ pout.plain = Trimmed(AnusvaraStyle(GroupsClaimed(pin.s, FALSE),
                                              pin.anusvara_style))
        /\ pout.capital = Trimmed(AnusvaraStyle(GroupsClaimed(FirstUpper(pin.s), TRUE),
                                                pin.anusvara_style))

\* C5 as stated: the vowel-collision clean-up applied to its own output
\* changes nothing, for every string.
C5_Idempotent == ppc = "twice" => pout[2] = pout[1]

\* no "a" stands before an "a" that stands before a long vowel or an anusvara
NoDoubleA(s) ==
    ~\E i \in 1..(Len(s) - 2) :
        s[i] = "a" /\ s[i + 1] = "a" /\ s[i + 2] \in LongVowels \cup Anusvaras

\* C5 amended: the clean-up applied to its own output changes nothing, for
\* every string in which no "a" stands right before an "a" that itself stands
\* before one of the long vowels or anusvaras.
C5_IdempotentNoDoubleA == (ppc = "twice" /\ NoDoubleA(pin)) => pout[2] = pout[1]

C5_Witness ==
    /\ ppc = "twice" /\ pin = <<"a", "a-", "a", "m.">>
    /\ pout = << <<"a-", "m.">>, <<"a-", "m.">> >>

\* what a rule whose failures are all tolerated does to the text
Tolerant(w, mode, s) ==
    IF w.tibetan = <<>> THEN s
    ELSE IF Compile(w.tibetan) = "none" THEN RuleBody(w, mode, s).text
    ELSE ReplaceLiteral(s, w.tibetan, Replacement(w, mode))

RECURSIVE AppliedTolerantly(_, _, _)
AppliedTolerantly(rules, mode, s) ==
    IF rules = <<>> THEN s
    ELSE AppliedTolerantly(Tail(rules), mode, Tolerant(Head(rules), mode, s))

\* C6: a rule whose pattern does not compile never aborts the call: its
\* failing sub-steps are skipped (the general one replaced literally), the
\* rules after it are applied as usual and the call returns a string.
C6_NeverAborts ==
    /\ tpc # "raised"
    /\ tpc = "done" =>
         result = Finish(AppliedTolerantly(Rules, req.mode, Normalized),
                         req.capitalize, req.anusvara_style)

\* C7: a call that returns leaves its instance in the cache, and once the
\* cache holds an engine every call returns that instance, whatever path it
\* is given, builds nothing and leaves the cache as it is.
C7_SingleCachedEngine ==
    [][ /\ (gpc[main] = "idle" /\ gpc'[main] = "returned")
             => (cache'.id # 0 /\ gret'[main] = cache'.id)
        /\ cache.id # 0
             => /\ cache'.id = cache.id /\ cache'.path = cache.path
                /\ made' = made
                /\ (gpc[main] = "idle" /\ gpc'[main] # "idle")
                     => (gpc'[main] = "returned" /\ gret'[main] = cache.id) ]_vars

\* a later call with another rule source got the engine built from the first
C7_Witness ==
    /\ gpc[main] = "returned" /\ garg[main] = "sarva.csv"
    /\ cache.path = "None" /\ gret[main] = cache.id /\ made = 1

\* C8: under any interleaving of get_transliterator calls the engine is
\* built at most once and every caller receives the same instance.
C8_BuiltOnce ==
    /\ made <= 1
    /\ \A t, u \in Threads :
          (gpc[t] = "returned" /\ gpc[u] = "returned") => gret[t] = gret[u]

\* C9: the engine's rule list is at all times the one it was constructed
\* with, and a request repeated on the shared engine returns what it
\* returned the first time.
C9_EngineUnchanged ==
    /\ cache.id # 0 => Rules = Preprocess(SourceRows(cache.path))
    /\ (tpc = "done" /\ last.set) => result = last.out

C9_Witness ==
    /\ tpc = "done" /\ last.set /\ cache.path = "None"
    /\ req.text = VAJRA \o <<"vI">>
    /\ result = <<"v", "a", "j", "r", "i">> /\ last.out = result

RECURSIVE OccurrenceRewrite(_, _, _, _)
\* every occurrence of p, left to right, rewritten by the character after it
OccurrenceRewrite(s, p, r, mode) ==
    IF s = <<>> THEN <<>>
    ELSE IF ~MatchesAt(s, 1, p) THEN <<s[1]>> \o OccurrenceRewrite(Tail(s), p, r, mode)
    ELSE LET rest == From(s, Len(p) + 1)
             base == SubSeq(r, 1, Len(r) - 1)
             c == IF rest = <<>> THEN "" ELSE rest[1]
         IN IF c \in Markers
            THEN r \o <<" ">> \o OccurrenceRewrite(Tail(rest), p, r, mode)
            ELSE IF c = "VISARGA"
            THEN base \o (IF mode = "phonetics" THEN <<"a", "h">> ELSE <<"a", "h.">>)
                      \o OccurrenceRewrite(Tail(rest), p, r, mode)
            ELSE IF c \in vowel_markers
            THEN base \o <<c>> \o OccurrenceRewrite(Tail(rest), p, r, mode)
            ELSE r \o OccurrenceRewrite(rest, p, r, mode)

\* a rule of the inherent-vowel kind whose pattern compiles
InherentRule(w, mode) ==
    /\ w.tibetan # <<>> /\ Compile(w.tibetan) = "none"
    /\ EndsWith(Replacement(w, mode), "a")

\* the loop has just run rule idx on the working text
RuleApplied == tpc = "loop" /\ tpc' = "loop" /\ idx' = idx + 1 /\ idx <= Len(Rules)

ByContinuation(w) ==
    replaced' = OccurrenceRewrite(GenitiveStep(w.tibetan, req.mode, replaced).text,
                                  w.tibetan, Replacement(w, req.mode), req.mode)

\* the two worked examples: VAJRA + tshek gives "vajra", VAJRA + visarga "vajrah."
Examples ==
    (tpc' = "done" /\ cache.path = "None" /\ req.mode = "iast" /\ Defaults)
        => /\ req.text = VAJRA \o <<"TSHEK">> => result' = vajra
           /\ req.text = VAJRA \o <<"VISARGA">> => result' = <<"v", "a", "j", "r", "a", "h.">>

\* C10 as stated: a rule whose replacement ends in "a" rewrites each
\* occurrence of its pattern by the character right after it: a tshek or shad
\* gives the replacement and a space, the visarga the replacement with its
\* visarga spelling, a vowel marker the replacement without its "a" and the
\* marker kept, anything else the full replacement.
C10_ByContinuation ==
    [][ /\ (RuleApplied /\ InherentRule(Rules[idx], req.mode)) => ByContinuation(Rules[idx])
        /\ Examples ]_vars

\* no proper prefix of p is a suffix of p: two occurrences never overlap
NoSelfOverlap(p) ==
    \A k \in 1..(Len(p) - 1) : SubSeq(p, 1, k) # SubSeq(p, Len(p) - k + 1, Len(p))

\* C10 amended: the same, for a pattern that cannot overlap itself.
C10_ByContinuationNoOverlap ==
    [][ /\ (RuleApplied /\ InherentRule(Rules[idx], req.mode)
                /\ NoSelfOverlap(Rules[idx].tibetan))
             => ByContinuation(Rules[idx])
        /\ Examples ]_vars

\* the rule VAJRA has rewritten VAJRA + visarga + VAJRA
C10_Witness ==
    /\ tpc = "loop" /\ cache.path = "None" /\ idx = 3 /\ req.mode = "iast"
    /\ req.text = VAJRA \o <<"VISARGA">> \o VAJRA
    /\ replaced = <<"v", "a", "j", "r", "a", "h.", "v", "a", "j", "r", "a">>

====
